---------------------------- MODULE Spec2Model ----------------------------
(***************************************************************************)
(* Model of the attestation coordinator (attestors/src/attestation.rs)     *)
(* and of the threshold signature engine it drives                         *)
(* (attestors/src/threshold.rs).                                           *)
(*                                                                         *)
(* Curve points are represented by their discrete logarithm over a small   *)
(* prime field: G1Projective::generator() * s and                          *)
(* G2Projective::generator() * s are both the scalar s modulo FieldOrder.  *)
(* Uuids, creation timestamps, DIDs, verified claims and free-form         *)
(* metadata are carried by the code but never read by it; they are left    *)
(* out of the records below.                                               *)
(***************************************************************************)
EXTENDS Integers, Sequences, FiniteSets, TLC

(***************************************************************************)
(* Bounds of the model.                                                    *)
(***************************************************************************)
MaxParties == 2
MaxTime == 2
MaxAttestations == 2
MaxEngineParties == 3
MaxPartials == 3

(* Order of the scalar field (bls12_381::Scalar), scaled down to a prime.  *)
FieldOrder == 11

(***************************************************************************)
(* Option<T> and Result<T, AttestorError>.                                 *)
(***************************************************************************)
NoneVal == [some |-> FALSE]
Some(x) == [some |-> TRUE, v |-> x]

Ok(x) == [ok |-> TRUE, val |-> x]
Err(kind, msg) == [ok |-> FALSE, err |-> kind, msg |-> msg]

Unit == "()"

(***************************************************************************)
(* Inputs.                                                                 *)
(***************************************************************************)
RequestIds == {"r1"}
AttestorIds == {"a", "b", "z"}

(* The verifiers handed to AttestationManager::new, in order.             *)
VerifierLists == { <<"a", "b">> }

(* Draws of Scalar::random for the polynomial coefficients.                *)
CoefficientDraws == { <<3, 5, 2, 7>> }

DidIssuer == "did:example:issuer"
UrlIssuer == "https://issuer.example"

starts_with_did(s) == s = DidIssuer

ValidCredential ==
  [id |-> 1, credential_type |-> <<"VerifiableCredential", "KycCredential">>,
   issuer |-> DidIssuer, expiration_date |-> NoneVal]

(* Credentials that fail VerifiableCredential::validate, one per check.    *)
InvalidCredentials ==
  { [id |-> 2, credential_type |-> <<"VerifiableCredential">>,
     issuer |-> DidIssuer, expiration_date |-> Some(0)],
    [id |-> 3, credential_type |-> <<>>,
     issuer |-> DidIssuer, expiration_date |-> NoneVal],
    [id |-> 4, credential_type |-> <<"KycCredential">>,
     issuer |-> DidIssuer, expiration_date |-> NoneVal],
    [id |-> 5, credential_type |-> <<"VerifiableCredential">>,
     issuer |-> UrlIssuer, expiration_date |-> NoneVal] }

Credentials == {ValidCredential} \cup InvalidCredentials

RequiredLists == { <<"a", "b">>, <<"a", "a">> }

ExpiryChoices == { NoneVal, Some(1) }

Request(i, c, ra, t, e) ==
  [id |-> i, credential |-> c, required_attestors |-> ra,
   threshold |-> t, expires_at |-> e]

(* The requests submitted, all under id "r1": every list, threshold and    *)
(* expiry with the valid credential, and each invalid credential once.     *)
Requests ==
  { Request("r1", ValidCredential, ra, t, e) :
      ra \in RequiredLists, t \in 0..(MaxParties + 1), e \in ExpiryChoices }
  \cup { Request("r1", c, <<"a", "b">>, 1, NoneVal) : c \in InvalidCredentials }

(***************************************************************************)
(* identity-core: VerifiableCredential                                     *)
(***************************************************************************)
Range(s) == { s[i] : i \in 1..Len(s) }

SeqContains(s, x) == \E i \in 1..Len(s) : s[i] = x

credential_validate(c, t) ==
  IF Len(c.credential_type) = 0
    THEN Err("InvalidCredential", "Credential must have at least one type")
  ELSE IF ~SeqContains(c.credential_type, "VerifiableCredential")
    THEN Err("InvalidCredential", "Credential must include 'VerifiableCredential' type")
  ELSE IF ~starts_with_did(c.issuer)
    THEN Err("InvalidCredential", "Issuer must be a valid DID")
  ELSE IF c.expiration_date.some /\ c.expiration_date.v <= t
    THEN Err("InvalidCredential", "Credential has expired")
  ELSE Ok(Unit)

(* serde_json::to_vec(&credential): the fields in declaration order, an   *)
(* absent expirationDate skipped.                                          *)
to_vec(c) ==
  <<c.id, Len(c.credential_type), IF starts_with_did(c.issuer) THEN 1 ELSE 0>>
    \o (IF c.expiration_date.some THEN <<c.expiration_date.v>> ELSE <<>>)


(***************************************************************************)
(* attestors/src/threshold.rs: ThresholdScheme                             *)
(***************************************************************************)
ManagerSchemeId == "scheme-1"

(* A constructor that lets the threshold exceed the number of parties.     *)
ThresholdScheme_new_unbounded(threshold, total_parties, scheme_id) ==
  IF threshold = 0
    THEN Err("ThresholdNotMet", "Threshold must be between 1 and total_parties")
    ELSE Ok([threshold |-> threshold, total_parties |-> total_parties,
             scheme_id |-> scheme_id])

ThresholdScheme_new(threshold, total_parties, scheme_id) ==
  IF threshold = 0 \/ threshold > total_parties
    THEN Err("ThresholdNotMet", "Threshold must be between 1 and total_parties")
    ELSE Ok([threshold |-> threshold, total_parties |-> total_parties,
             scheme_id |-> scheme_id])

(* The evaluation loop of generate_key_shares: share += coeff * x_power;   *)
(* x_power *= x, over the coefficients after the first.                    *)
(* An evaluation that never advances the power of x.                       *)
RECURSIVE eval_loop_stuck_power(_, _, _, _, _)
eval_loop_stuck_power(coefficients, k, x, x_power, share) ==
  IF k > Len(coefficients) THEN share
  ELSE eval_loop_stuck_power(coefficients, k + 1, x, x_power,
                             (share + coefficients[k] * x_power) % FieldOrder)

RECURSIVE eval_loop(_, _, _, _, _)
eval_loop(coefficients, k, x, x_power, share) ==
  IF k > Len(coefficients) THEN share
  ELSE eval_loop(coefficients, k + 1, x, (x_power * x) % FieldOrder,
                 (share + coefficients[k] * x_power) % FieldOrder)

generate_key_shares(scheme, draws) ==
  LET master_secret == draws[1] % FieldOrder
      coefficients  == [k \in 1..scheme.threshold |-> draws[k] % FieldOrder]
      share_of(party_id) ==
        eval_loop(coefficients, 2, party_id % FieldOrder,
                  party_id % FieldOrder, coefficients[1])
      key_shares ==
        [i \in 1..scheme.total_parties |->
           [party_id |-> i, private_share |-> share_of(i),
            public_share |-> share_of(i), scheme_id |-> scheme.scheme_id]]
      threshold_public_key ==
        [public_key |-> master_secret, scheme_id |-> scheme.scheme_id,
         threshold |-> scheme.threshold, total_parties |-> scheme.total_parties]
  IN  [key_shares |-> key_shares, threshold_public_key |-> threshold_public_key]

SchemeCode(scheme_id) == IF scheme_id = ManagerSchemeId THEN 1 ELSE 2

RECURSIVE digest(_, _)
digest(bytes, acc) ==
  IF bytes = <<>> THEN acc
  ELSE digest(Tail(bytes), (acc * 3 + Head(bytes) + 1) % FieldOrder)

(* Sha256 over the message followed by the scheme id, read as a scalar,    *)
(* times the G2 generator.                                                 *)
hash_to_g2(scheme, message) ==
  digest(message \o <<SchemeCode(scheme.scheme_id)>>, 1)

(* A signing that takes any key share, of whatever scheme.                 *)
partial_sign_any_share(scheme, message, key_share) ==
  Ok([party_id |-> key_share.party_id,
      signature |-> (hash_to_g2(scheme, message) * key_share.private_share)
                       % FieldOrder,
      scheme_id |-> scheme.scheme_id])

partial_sign(scheme, message, key_share) ==
  IF key_share.scheme_id # scheme.scheme_id
    THEN Err("InvalidSignature", "Key share scheme ID mismatch")
    ELSE Ok([party_id |-> key_share.party_id,
             signature |-> (hash_to_g2(scheme, message) * key_share.private_share)
                              % FieldOrder,
             scheme_id |-> scheme.scheme_id])

(* A take that keeps the whole sequence.                                   *)
Take_all(s, n) == s

Take(s, n) == SubSeq(s, 1, IF n < Len(s) THEN n ELSE Len(s))

(* A combination that does not count its inputs.                           *)
combine_signatures_uncounted(scheme, partial_signatures) ==
  IF \E i \in 1..Len(partial_signatures) :
       partial_signatures[i].scheme_id # scheme.scheme_id
    THEN Err("InvalidSignature", "Signature scheme ID mismatch")
  ELSE IF Len(partial_signatures) = 0
    THEN Err("InvalidSignature", "No signatures to combine")
  ELSE Ok([signature |-> partial_signatures[1].signature,
           scheme_id |-> scheme.scheme_id,
           signers   |-> [i \in 1..Len(Take(partial_signatures, scheme.threshold)) |->
                            partial_signatures[i].party_id]])

combine_signatures(scheme, partial_signatures) ==
  IF Len(partial_signatures) < scheme.threshold
    THEN Err("ThresholdNotMet", "Need at least threshold signatures")
  ELSE IF \E i \in 1..Len(partial_signatures) :
            partial_signatures[i].scheme_id # scheme.scheme_id
    THEN Err("InvalidSignature", "Signature scheme ID mismatch")
  ELSE IF Len(partial_signatures) = 0
    THEN Err("InvalidSignature", "No signatures to combine")
  ELSE Ok([signature |-> partial_signatures[1].signature,
           scheme_id |-> scheme.scheme_id,
           signers   |-> [i \in 1..Len(Take(partial_signatures, scheme.threshold)) |->
                            partial_signatures[i].party_id]])

(* Vec<u8>::is_empty on an encoded point or key; to_bytes() of a point is  *)
(* never empty, so only a hand-built value is.                             *)
EmptyBytes == 0 - 1
is_empty(bytes) == bytes = EmptyBytes

(* A verification that wants more signers than the threshold.              *)
verify_signature_above_threshold(scheme, message, signature, public_key) ==
  IF \/ signature.scheme_id # scheme.scheme_id
     \/ public_key.scheme_id # scheme.scheme_id
    THEN Err("InvalidSignature", "Scheme ID mismatch")
  ELSE IF is_empty(signature.signature) \/ is_empty(public_key.public_key)
    THEN Ok(FALSE)
  ELSE IF Len(signature.signers) <= scheme.threshold
    THEN Ok(FALSE)
  ELSE Ok(TRUE)

verify_signature(scheme, message, signature, public_key) ==
  IF \/ signature.scheme_id # scheme.scheme_id
     \/ public_key.scheme_id # scheme.scheme_id
    THEN Err("InvalidSignature", "Scheme ID mismatch")
  ELSE IF is_empty(signature.signature) \/ is_empty(public_key.public_key)
    THEN Ok(FALSE)
  ELSE IF Len(signature.signers) < scheme.threshold
    THEN Ok(FALSE)
  ELSE Ok(TRUE)

(* Scalar::invert().unwrap(): the inverse of a non-zero scalar.            *)
invert(a) == CHOOSE b \in 1..(FieldOrder - 1) : (a * b) % FieldOrder = 1

(* The loop of lagrange_coefficient over signers, from index k on.         *)
RECURSIVE lagrange_loop(_, _, _, _)
lagrange_loop(party_id, signers, k, coeff) ==
  IF k > Len(signers) THEN coeff
  ELSE LET signer_id == signers[k]
           x_i == party_id % FieldOrder
           x_j == signer_id % FieldOrder
       IN  lagrange_loop(party_id, signers, k + 1,
             IF signer_id # party_id
               THEN (coeff * x_j * invert((x_j - x_i) % FieldOrder)) % FieldOrder
               ELSE coeff)

lagrange_coefficient(party_id, signers) == lagrange_loop(party_id, signers, 1, 1)

(***************************************************************************)
(* attestors/src/attestation.rs: AttestationRequest                        *)
(***************************************************************************)
(* An expiry test that already fires at the expiry instant.                *)
is_expired_inclusive(request, t) ==
  IF request.expires_at.some THEN t >= request.expires_at.v ELSE FALSE

is_expired(request, t) ==
  IF request.expires_at.some THEN t > request.expires_at.v ELSE FALSE

validate(request, t) ==
  IF request.threshold = 0 \/ request.threshold > Len(request.required_attestors)
    THEN Err("ThresholdNotMet", "Invalid threshold configuration")
  ELSE IF is_expired(request, t)
    THEN Err("InvalidSignature", "Request has expired")
  ELSE IF ~credential_validate(request.credential, t).ok
    THEN Err("InvalidSignature", "Invalid credential")
  ELSE Ok(Unit)

(***************************************************************************)
(* attestors/src/attestation.rs: Attestation                               *)
(***************************************************************************)
Attestation_new(request_id, attestor_id, credential_id) ==
  [request_id |-> request_id, attestor_id |-> attestor_id,
   credential_id |-> credential_id, status |-> "Pending",
   partial_signature |-> NoneVal, rejection_reason |-> NoneVal]

(* An approval that drops the partial signature.                           *)
approve_unsigned(attestation, partial_signature) ==
  [attestation EXCEPT !.status = "Approved"]

approve(attestation, partial_signature) ==
  [attestation EXCEPT !.status = "Approved",
                      !.partial_signature = Some(partial_signature)]

reject(attestation, reason) ==
  [attestation EXCEPT !.status = "Rejected",
                      !.rejection_reason = Some(reason)]

(***************************************************************************)
(* attestors/src/attestation.rs: AttestationManager                        *)
(***************************************************************************)
Insert(map, k, v) == (k :> v) @@ map

(* A completion that forgets to drop the request.                          *)
Remove_keeps(map, k) == map
Remove(map, k) == [x \in DOMAIN map \ {k} |-> map[x]]

(* The loop of AttestationManager::new over verifiers.into_iter()          *)
(* .enumerate(); i is the zero-based index.                                *)
(* A binding that hands the first key share to every verifier.             *)
RECURSIVE bind_loop_first_share(_, _, _, _, _)
bind_loop_first_share(verifier_list, i, shares, verifier_map, key_share_map) ==
  IF i >= Len(verifier_list)
    THEN [verifiers |-> verifier_map, key_shares |-> key_share_map]
    ELSE LET id == verifier_list[i + 1]
         IN  bind_loop_first_share(verifier_list, i + 1, shares,
                                   verifier_map \cup {id},
                                   IF i < Len(shares)
                                     THEN Insert(key_share_map, id, shares[1])
                                     ELSE key_share_map)

RECURSIVE bind_loop(_, _, _, _, _)
bind_loop(verifier_list, i, shares, verifier_map, key_share_map) ==
  IF i >= Len(verifier_list)
    THEN [verifiers |-> verifier_map, key_shares |-> key_share_map]
    ELSE LET id == verifier_list[i + 1]
         IN  bind_loop(verifier_list, i + 1, shares,
                       verifier_map \cup {id},
                       IF i < Len(shares)
                         THEN Insert(key_share_map, id, shares[i + 1])
                         ELSE key_share_map)

AttestationManager_new(threshold, total_parties, verifier_list, draws) ==
  LET scheme == ThresholdScheme_new(threshold, total_parties, ManagerSchemeId)
  IN  IF ~scheme.ok THEN scheme
      ELSE LET gen   == generate_key_shares(scheme.val, draws)
               bound == bind_loop(verifier_list, 0, gen.key_shares, {}, <<>>)
           IN  Ok([threshold_scheme     |-> scheme.val,
                   verifiers            |-> bound.verifiers,
                   key_shares           |-> bound.key_shares,
                   threshold_public_key |-> gen.threshold_public_key,
                   pending_requests     |-> <<>>,
                   attestations         |-> <<>>])

(* Each operation below takes the manager and the clock reading of the     *)
(* call and yields the manager after the call and the value returned.      *)
Outcome(m, result) == [m |-> m, result |-> result]

(* A submission that registers the request before validating it.          *)
submit_request_unvalidated(m, request, t) ==
  Outcome([m EXCEPT !.pending_requests = Insert(@, request.id, request),
                    !.attestations     = Insert(@, request.id, <<>>)],
          LET v == validate(request, t)
          IN  IF v.ok THEN Ok(request.id) ELSE v)

submit_request(m, request, t) ==
  LET v == validate(request, t)
  IN  IF ~v.ok THEN Outcome(m, v)
      ELSE Outcome([m EXCEPT
                      !.pending_requests = Insert(@, request.id, request),
                      !.attestations     = Insert(@, request.id, <<>>)],
                   Ok(request.id))

process_attestation(m, request_id, attestor_id, approved, t) ==
  IF request_id \notin DOMAIN m.pending_requests
    THEN Outcome(m, Err("InvalidSignature", "Request not found"))
  ELSE LET request == m.pending_requests[request_id] IN
  IF is_expired(request, t)
    THEN Outcome(m, Err("InvalidSignature", "Request has expired"))
  ELSE IF attestor_id \notin m.verifiers
    THEN Outcome(m, Err("InvalidSignature", "Verifier not found"))
  ELSE IF attestor_id \notin DOMAIN m.key_shares
    THEN Outcome(m, Err("InvalidSignature", "Key share not found"))
  ELSE LET key_share   == m.key_shares[attestor_id]
           attestation == Attestation_new(request_id, attestor_id,
                                          request.credential.id)
           signed      == partial_sign(m.threshold_scheme,
                                       to_vec(request.credential), key_share)
       IN
  IF approved /\ ~signed.ok
    THEN Outcome(m, signed)
  ELSE IF request_id \notin DOMAIN m.attestations
    THEN Outcome(m, Err("Panic", "unwrap on None"))
  ELSE Outcome([m EXCEPT !.attestations[request_id] =
                  Append(@, IF approved
                              THEN approve(attestation, signed.val)
                              ELSE reject(attestation,
                                          "Attestor rejected the credential"))],
               Ok(Unit))

(* A count that takes every recorded attestation as an approval.          *)
IsApproved_any(a) == a.status \in {"Approved", "Rejected"}

IsApproved(a) == a.status = "Approved"
HasPartial(a) == a.partial_signature.some

try_complete_attestation(m, request_id) ==
  IF request_id \notin DOMAIN m.pending_requests
    THEN Outcome(m, Err("InvalidSignature", "Request not found"))
  ELSE IF request_id \notin DOMAIN m.attestations
    THEN Outcome(m, Err("Panic", "unwrap on None"))
  ELSE LET request      == m.pending_requests[request_id]
           attestations == m.attestations[request_id]
           approved_attestations == SelectSeq(attestations, IsApproved)
       IN
  IF Len(approved_attestations) >= request.threshold
    THEN LET with_sig == SelectSeq(approved_attestations, HasPartial)
             partial_signatures ==
               [i \in 1..Len(with_sig) |-> with_sig[i].partial_signature.v]
             combined == combine_signatures(m.threshold_scheme, partial_signatures)
         IN  IF ~combined.ok THEN Outcome(m, combined)
             ELSE Outcome(
                    [m EXCEPT !.pending_requests = Remove(@, request_id)],
                    Ok(Some([request_id    |-> request_id,
                             credential_id |-> request.credential.id,
                             threshold_signature |-> Some(combined.val),
                             participating_attestors |->
                               [i \in 1..Len(approved_attestations) |->
                                  approved_attestations[i].attestor_id],
                             status |-> "Completed",
                             total_attestations |-> Len(attestations)])))
    ELSE Outcome(m, Ok(NoneVal))

(* A verification that reports a missing signature as an error.            *)
verify_attestation_result_strict(m, result, credential) ==
  IF result.threshold_signature.some
    THEN verify_signature(m.threshold_scheme, to_vec(credential),
                          result.threshold_signature.v, m.threshold_public_key)
    ELSE Err("InvalidSignature", "No signature")

verify_attestation_result(m, result, credential) ==
  IF result.threshold_signature.some
    THEN verify_signature(m.threshold_scheme, to_vec(credential),
                          result.threshold_signature.v, m.threshold_public_key)
    ELSE Ok(FALSE)

(***************************************************************************)
(* State: the manager, the clock (Utc::now()), the most recent call with   *)
(* the value it returned, and the request ids a result was handed out for. *)
(* engine is the state of a ThresholdScheme used on its own; callers and    *)
(* borrow are the callers sharing one manager and the holder of its        *)
(* exclusive (&mut self) borrow; registry is the credential registry of    *)
(* the node.  Each specification below moves its own                       *)
(* variables and leaves the others at their initial value.                 *)
(***************************************************************************)
VARIABLES manager, now, last, completed, engine, callers, borrow, registry

vars == <<manager, now, last, completed, engine, callers, borrow, registry>>

Called(op, request_id, result) ==
  [op |-> op, request_id |-> request_id, result |-> result]

RECURSIVE SumLen(_, _)
SumLen(f, ids) ==
  IF ids = {} THEN 0
  ELSE LET id == CHOOSE x \in ids : TRUE
       IN  Len(f[id]) + SumLen(f, ids \ {id})

TotalAttestations(m) == SumLen(m.attestations, DOMAIN m.attestations)

Init ==
  /\ \E total_parties \in 1..MaxParties, threshold \in 1..MaxParties,
        verifier_list \in VerifierLists, draws \in CoefficientDraws :
       LET created == AttestationManager_new(threshold, total_parties,
                                             verifier_list, draws)
       IN  created.ok /\ manager = created.val
  /\ now = 0
  /\ last = Called("new", "", Ok(Unit))
  /\ completed = {}
  /\ engine = NoneVal
  /\ callers = <<>>
  /\ borrow = NoneVal
  /\ registry = NoneVal

SubmitRequest ==
  \E request \in Requests :
    LET out == submit_request(manager, request, now)
    IN  /\ manager' = out.m
        /\ last' = Called("submit_request", request.id, out.result)
        /\ UNCHANGED <<now, completed, engine, callers, borrow, registry>>

ProcessAttestation ==
  \E request_id \in RequestIds, attestor_id \in AttestorIds, approved \in BOOLEAN :
    LET out == process_attestation(manager, request_id, attestor_id, approved, now)
    IN  /\ out.result.ok => TotalAttestations(manager) < MaxAttestations
        /\ manager' = out.m
        /\ last' = Called("process_attestation", request_id, out.result)
        /\ UNCHANGED <<now, completed, engine, callers, borrow, registry>>

TryCompleteAttestation ==
  \E request_id \in RequestIds :
    LET out == try_complete_attestation(manager, request_id)
    IN  /\ manager' = out.m
        /\ last' = Called("try_complete_attestation", request_id, out.result)
        /\ completed' = IF out.result.ok /\ out.result.val.some
                          THEN completed \cup {request_id}
                          ELSE completed
        /\ UNCHANGED <<now, engine, callers, borrow, registry>>

(* The result just returned, as it is or as a record of the same request  *)
(* that carries no signature.                                              *)
Unsigned(result) ==
  [result EXCEPT !.threshold_signature = NoneVal, !.status = "InProgress"]

(* verify_attestation_result takes &self: the manager is only read.        *)
VerifyAttestationResult ==
  /\ last.op = "try_complete_attestation"
  /\ last.result.ok
  /\ last.result.val.some
  /\ \E credential \in Credentials,
        result \in {last.result.val.v, Unsigned(last.result.val.v)} :
       last' = Called("verify_attestation_result", last.request_id,
                      verify_attestation_result(manager, result, credential))
  /\ UNCHANGED <<manager, now, completed, engine, callers, borrow, registry>>

Tick ==
  /\ now < MaxTime
  /\ now' = now + 1
  /\ last' = Called("tick", "", Ok(Unit))
  /\ UNCHANGED <<manager, completed, engine, callers, borrow, registry>>

Next ==
  \/ SubmitRequest
  \/ ProcessAttestation
  \/ TryCompleteAttestation
  \/ VerifyAttestationResult
  \/ Tick

Spec == Init /\ [][Next]_vars

(***************************************************************************)
(* Callers sharing one manager.  process_attestation and                   *)
(* try_complete_attestation take &mut self: a call starts only while no    *)
(* other call holds the manager, and holds it until it returns.  Each call *)
(* is taken in the steps of its body: process_attestation checks and signs *)
(* and then pushes; try_complete_attestation counts, combines and then     *)
(* removes the request.                                                    *)
(***************************************************************************)
Callers == {"p", "q"}

(* The request the callers work on.                                        *)
SharedRequests ==
  { Request("r1", ValidCredential, <<"a", "b">>, t, NoneVal) : t \in 1..MaxParties }

(* A second call entering while another still holds the manager.           *)
borrow_mut_aliased(holder) == TRUE

(* The receiver &mut self: free exactly when nobody holds the manager.     *)
borrow_mut(holder) == ~holder.some

Idle ==
  [pc |-> "idle", op |-> "", request_id |-> "", snapshot |-> NoneVal,
   result |-> NoneVal, attestation |-> NoneVal, returned |-> NoneVal,
   completions |-> 0]

Return(c, value) ==
  [callers EXCEPT ![c].pc = "idle", ![c].snapshot = NoneVal,
                  ![c].result = NoneVal, ![c].attestation = NoneVal,
                  ![c].returned = Some(value)]

SharedInit ==
  /\ \E total_parties \in 1..MaxParties, threshold \in 1..MaxParties,
        verifier_list \in VerifierLists, draws \in CoefficientDraws,
        request \in SharedRequests :
       LET created == AttestationManager_new(threshold, total_parties,
                                             verifier_list, draws)
       IN  /\ created.ok
           /\ submit_request(created.val, request, 0).result.ok
           /\ manager = submit_request(created.val, request, 0).m
  /\ now = 0
  /\ last = Called("submit_request", "r1", Ok("r1"))
  /\ completed = {}
  /\ engine = NoneVal
  /\ callers = [c \in Callers |-> Idle]
  /\ borrow = NoneVal
  /\ registry = NoneVal

(* process_attestation up to the signed attestation (lines 214-248).       *)
CheckAndSign(c) ==
  \E request_id \in RequestIds, attestor_id \in AttestorIds, approved \in BOOLEAN :
    LET out == process_attestation(manager, request_id, attestor_id, approved, now)
    IN  /\ callers[c].pc = "idle"
        /\ borrow_mut(borrow)
        /\ out.result.ok => TotalAttestations(manager) < MaxAttestations
        /\ IF out.result.ok
             THEN /\ callers' =
                       [callers EXCEPT
                          ![c].pc = "signed",
                          ![c].op = "process_attestation",
                          ![c].request_id = request_id,
                          ![c].attestation =
                            Some(out.m.attestations[request_id]
                                   [Len(out.m.attestations[request_id])]),
                          ![c].returned = NoneVal]
                  /\ borrow' = Some(c)
             ELSE /\ callers' =
                       [Return(c, out.result) EXCEPT
                          ![c].op = "process_attestation",
                          ![c].request_id = request_id]
                  /\ borrow' = borrow
        /\ UNCHANGED <<manager, now, last, completed, engine, registry>>

(* self.attestations.get_mut(request_id).unwrap().push(attestation); Ok(()) *)
Push(c) ==
  /\ callers[c].pc = "signed"
  /\ manager' = [manager EXCEPT !.attestations[callers[c].request_id] =
                   Append(@, callers[c].attestation.v)]
  /\ callers' = Return(c, Ok(Unit))
  /\ borrow' = NoneVal
  /\ UNCHANGED <<now, last, completed, engine, registry>>

(* try_complete_attestation up to the threshold test (lines 258-267).      *)
Count(c) ==
  \E request_id \in RequestIds :
    LET out == try_complete_attestation(manager, request_id)
        met == /\ request_id \in DOMAIN manager.pending_requests
               /\ Len(SelectSeq(manager.attestations[request_id], IsApproved))
                    >= manager.pending_requests[request_id].threshold
    IN  /\ callers[c].pc = "idle"
        /\ borrow_mut(borrow)
        /\ IF met
             THEN /\ callers' =
                       [callers EXCEPT
                          ![c].pc = "counted",
                          ![c].op = "try_complete_attestation",
                          ![c].request_id = request_id,
                          ![c].snapshot = Some(manager),
                          ![c].returned = NoneVal]
                  /\ borrow' = Some(c)
             ELSE /\ callers' =
                       [Return(c, out.result) EXCEPT
                          ![c].op = "try_complete_attestation",
                          ![c].request_id = request_id]
                  /\ borrow' = borrow
        /\ UNCHANGED <<manager, now, last, completed, engine, registry>>

(* The partial signatures of the counted attestations are combined and the *)
(* result is built (lines 268-293).                                        *)
Combine(c) ==
  LET out == try_complete_attestation(callers[c].snapshot.v, callers[c].request_id)
  IN  /\ callers[c].pc = "counted"
      /\ IF out.result.ok
           THEN /\ callers' = [callers EXCEPT ![c].pc = "combined",
                                              ![c].result = Some(out.result)]
                /\ borrow' = borrow
           ELSE /\ callers' = Return(c, out.result)
                /\ borrow' = NoneVal
      /\ UNCHANGED <<manager, now, last, completed, engine, registry>>

(* self.pending_requests.remove(request_id); Ok(Some(result))              *)
RemoveCompleted(c) ==
  /\ callers[c].pc = "combined"
  /\ manager' = [manager EXCEPT
                   !.pending_requests = Remove(@, callers[c].request_id)]
  /\ callers' = [Return(c, callers[c].result.v) EXCEPT
                   ![c].completions = @ + 1]
  /\ borrow' = NoneVal
  /\ UNCHANGED <<now, last, completed, engine, registry>>

SharedNext ==
  \E c \in Callers :
    \/ CheckAndSign(c)
    \/ Push(c)
    \/ Count(c)
    \/ Combine(c)
    \/ RemoveCompleted(c)

SharedSpec == SharedInit /\ [][SharedNext]_vars

(***************************************************************************)
(* A ThresholdScheme used on its own: created, key shares generated, one   *)
(* message signed share by share, the partial signatures collected in the  *)
(* order they are made, combined and verified.  A second scheme instance   *)
(* with its own scheme_id supplies key shares, partial signatures, a       *)
(* signature and a public key that do not belong to the first.             *)
(***************************************************************************)
OtherSchemeId == "scheme-2"

OtherScheme == ThresholdScheme_new(1, 1, OtherSchemeId).val

OtherGenerated == generate_key_shares(OtherScheme, <<8, 1, 1, 1>>)

Messages == { <<1, 2, 1>>, <<4>> }

EngineDraws == CoefficientDraws \cup { <<6, 0, 9, 4>> }

EngineCall(op, args, result) == [op |-> op, args |-> args, result |-> result]

EngineInit ==
  /\ \E message \in Messages :
       engine = [scheme |-> NoneVal, generated |-> NoneVal, draws |-> <<>>,
                 message |-> message, partial_signatures |-> <<>>,
                 call |-> EngineCall("", <<>>, Ok(Unit))]
  /\ manager = NoneVal
  /\ now = 0
  /\ last = Called("", "", Ok(Unit))
  /\ completed = {}
  /\ callers = <<>>
  /\ borrow = NoneVal
  /\ registry = NoneVal

EngineCreate ==
  \E threshold \in 0..(MaxEngineParties + 1), total_parties \in 0..MaxEngineParties :
    LET created == ThresholdScheme_new(threshold, total_parties, ManagerSchemeId)
    IN  /\ ~engine.scheme.some
        /\ engine' = [engine EXCEPT
                        !.scheme = IF created.ok THEN Some(created.val) ELSE NoneVal,
                        !.call   = EngineCall("new", <<threshold, total_parties>>,
                                              created)]
        /\ UNCHANGED <<manager, now, last, completed, callers, borrow, registry>>

EngineGenerateShares ==
  \E draws \in EngineDraws :
    /\ engine.scheme.some
    /\ ~engine.generated.some
    /\ engine' = [engine EXCEPT
                    !.generated = Some(generate_key_shares(engine.scheme.v, draws)),
                    !.draws     = draws,
                    !.call      = EngineCall("generate_key_shares", <<>>, Ok(Unit))]
    /\ UNCHANGED <<manager, now, last, completed, callers, borrow, registry>>

OwnShares == Range(engine.generated.v.key_shares)
OtherShares == Range(OtherGenerated.key_shares)

EnginePartialSign ==
  /\ engine.generated.some
  /\ \E scheme \in {engine.scheme.v, OtherScheme},
        key_share \in OwnShares \cup OtherShares :
       LET signed == partial_sign(scheme, engine.message, key_share)
       IN  /\ signed.ok => Len(engine.partial_signatures) < MaxPartials
           /\ engine' = [engine EXCEPT
                           !.partial_signatures =
                              IF signed.ok THEN Append(@, signed.val) ELSE @,
                           !.call = EngineCall("partial_sign",
                                               <<scheme.scheme_id, key_share.scheme_id>>,
                                               signed)]
  /\ UNCHANGED <<manager, now, last, completed, callers, borrow, registry>>

EngineCombine ==
  /\ engine.generated.some
  /\ engine' = [engine EXCEPT
                  !.call = EngineCall("combine_signatures", <<>>,
                             combine_signatures(engine.scheme.v,
                                                engine.partial_signatures))]
  /\ UNCHANGED <<manager, now, last, completed, callers, borrow, registry>>

(* The signature and the public key of the other scheme instance.          *)
OtherSignature ==
  combine_signatures(OtherScheme,
    <<partial_sign(OtherScheme, <<4>>, OtherGenerated.key_shares[1]).val>>).val

PublicKeys == {engine.generated.v.threshold_public_key,
               OtherGenerated.threshold_public_key}

EngineVerify ==
  /\ engine.generated.some
  /\ engine.call.op = "combine_signatures"
  /\ engine.call.result.ok
  /\ \E message \in Messages,
        signature \in {engine.call.result.val, OtherSignature},
        public_key \in PublicKeys :
       engine' = [engine EXCEPT
                    !.call = EngineCall("verify_signature",
                               <<message, signature.scheme_id, public_key.scheme_id>>,
                               verify_signature(engine.scheme.v, message,
                                                signature, public_key))]
  /\ UNCHANGED <<manager, now, last, completed, callers, borrow, registry>>

EngineNext ==
  \/ EngineCreate
  \/ EngineGenerateShares
  \/ EnginePartialSign
  \/ EngineCombine
  \/ EngineVerify

EngineSpec == EngineInit /\ [][EngineNext]_vars

(***************************************************************************)
(* The credential registry of the substrate node: entries and revocations  *)
(* keyed by credential id.  The fields no operation reads (credential      *)
(* hash, issuer and subject DID, schema id, metadata, and the issued_at     *)
(* and revoked_at stamps) are left out.  attestation_count is a u32 that   *)
(* stays below required_attestations while the entry is Pending, so the    *)
(* increment cannot wrap.                                                  *)
(***************************************************************************)
MaxRequired == 2

CredentialIds == {"c1", "c2"}

RequiredChoices == 0..MaxRequired

Revokers == {"did:example:issuer"}

Reasons == {"key compromised"}

CredentialRegistry_new == [entries |-> <<>>, revocations |-> <<>>]

register_credential(r, credential_id, expires_at, required_attestations) ==
  IF credential_id \in DOMAIN r.entries
    THEN Outcome(r, Err("String", "Credential already exists"))
    ELSE Outcome(
           [r EXCEPT !.entries =
              Insert(@, credential_id,
                     [credential_id |-> credential_id,
                      expires_at    |-> expires_at,
                      status        |-> IF required_attestations > 0
                                          THEN "Pending" ELSE "Active",
                      revocation_reason     |-> NoneVal,
                      attestation_count     |-> 0,
                      required_attestations |-> required_attestations])],
           Ok(Unit))

(* An addition that activates one attestation late.                        *)
add_attestation_late(r, credential_id) ==
  IF credential_id \notin DOMAIN r.entries
    THEN Outcome(r, Err("String", "Credential not found"))
  ELSE IF r.entries[credential_id].status # "Pending"
    THEN Outcome(r, Err("String", "Credential is not pending attestation"))
  ELSE LET entry == r.entries[credential_id]
           attestation_count == entry.attestation_count + 1
       IN  Outcome(
             [r EXCEPT !.entries[credential_id] =
                [entry EXCEPT !.attestation_count = attestation_count,
                              !.status =
                                IF attestation_count > entry.required_attestations
                                  THEN "Active" ELSE entry.status]],
             Ok(Unit))

add_attestation(r, credential_id) ==
  IF credential_id \notin DOMAIN r.entries
    THEN Outcome(r, Err("String", "Credential not found"))
  ELSE IF r.entries[credential_id].status # "Pending"
    THEN Outcome(r, Err("String", "Credential is not pending attestation"))
  ELSE LET entry == r.entries[credential_id]
           attestation_count == entry.attestation_count + 1
       IN  Outcome(
             [r EXCEPT !.entries[credential_id] =
                [entry EXCEPT !.attestation_count = attestation_count,
                              !.status =
                                IF attestation_count >= entry.required_attestations
                                  THEN "Active" ELSE entry.status]],
             Ok(Unit))

(* A revocation that does not look at the stored status.                   *)
revoke_credential_again(r, credential_id, revoked_by, reason) ==
  IF credential_id \notin DOMAIN r.entries
    THEN Outcome(r, Err("String", "Credential not found"))
  ELSE Outcome(
         [r EXCEPT !.entries[credential_id] =
                     [@ EXCEPT !.status = "Revoked",
                               !.revocation_reason = Some(reason)],
                   !.revocations =
                     Insert(@, credential_id,
                            [credential_id |-> credential_id,
                             revoked_by    |-> revoked_by,
                             reason        |-> reason,
                             revocation_list_hash |-> NoneVal])],
         Ok(Unit))

revoke_credential(r, credential_id, revoked_by, reason) ==
  IF credential_id \notin DOMAIN r.entries
    THEN Outcome(r, Err("String", "Credential not found"))
  ELSE IF r.entries[credential_id].status = "Revoked"
    THEN Outcome(r, Err("String", "Credential already revoked"))
  ELSE Outcome(
         [r EXCEPT !.entries[credential_id] =
                     [@ EXCEPT !.status = "Revoked",
                               !.revocation_reason = Some(reason)],
                   !.revocations =
                     Insert(@, credential_id,
                            [credential_id |-> credential_id,
                             revoked_by    |-> revoked_by,
                             reason        |-> reason,
                             revocation_list_hash |-> NoneVal])],
         Ok(Unit))

get_credential_status(r, credential_id, t) ==
  IF credential_id \notin DOMAIN r.entries
    THEN NoneVal
  ELSE IF /\ r.entries[credential_id].expires_at.some
          /\ t > r.entries[credential_id].expires_at.v
    THEN Some("Expired")
  ELSE Some(r.entries[credential_id].status)

is_valid(r, credential_id, t) ==
  get_credential_status(r, credential_id, t) = Some("Active")

RegistryInit ==
  /\ registry = CredentialRegistry_new
  /\ now = 0
  /\ last = Called("new", "", Ok(Unit))
  /\ manager = NoneVal
  /\ completed = {}
  /\ engine = NoneVal
  /\ callers = <<>>
  /\ borrow = NoneVal

RegisterCredential ==
  /\ \E credential_id \in CredentialIds, expires_at \in ExpiryChoices,
        required_attestations \in RequiredChoices :
       \E out \in {register_credential(registry, credential_id, expires_at,
                                       required_attestations)} :
         /\ registry' = out.m
         /\ last' = Called("register_credential", credential_id, out.result)
  /\ UNCHANGED <<manager, now, completed, engine, callers, borrow>>

AddAttestation ==
  /\ \E credential_id \in CredentialIds :
       \E out \in {add_attestation(registry, credential_id)} :
         /\ registry' = out.m
         /\ last' = Called("add_attestation", credential_id, out.result)
  /\ UNCHANGED <<manager, now, completed, engine, callers, borrow>>

RevokeCredential ==
  /\ \E credential_id \in CredentialIds, revoked_by \in Revokers,
        reason \in Reasons :
       \E out \in {revoke_credential(registry, credential_id, revoked_by,
                                     reason)} :
         /\ registry' = out.m
         /\ last' = Called("revoke_credential", credential_id, out.result)
  /\ UNCHANGED <<manager, now, completed, engine, callers, borrow>>

GetCredentialStatus ==
  /\ \E credential_id \in CredentialIds :
       last' = Called("get_credential_status", credential_id,
                      get_credential_status(registry, credential_id, now))
  /\ UNCHANGED <<manager, now, completed, engine, callers, borrow, registry>>

IsValid ==
  /\ \E credential_id \in CredentialIds :
       last' = Called("is_valid", credential_id,
                      is_valid(registry, credential_id, now))
  /\ UNCHANGED <<manager, now, completed, engine, callers, borrow, registry>>

RegistryNext ==
  \/ RegisterCredential
  \/ AddAttestation
  \/ RevokeCredential
  \/ GetCredentialStatus
  \/ IsValid
  \/ Tick

RegistrySpec == RegistryInit /\ [][RegistryNext]_vars

(***************************************************************************)
(* Vocabulary of the properties.                                           *)
(***************************************************************************)
Pending == DOMAIN manager.pending_requests

PastExpiry(request, t) == request.expires_at.some /\ t > request.expires_at.v

ApprovedIndexes(list) == { i \in 1..Len(list) : list[i].status = "Approved" }

DistinctApprovers(list) == { list[i].attestor_id : i \in ApprovedIndexes(list) }

ReturnsCompleted(out) ==
  /\ out.result.ok
  /\ out.result.val.some
  /\ out.result.val.v.status = "Completed"
  /\ out.result.val.v.threshold_signature.some

NotFound(out) ==
  /\ ~out.result.ok
  /\ out.result.msg = "Request not found"

(* C1: a result is produced at most once per request id: once              *)
(* try_complete_attestation has returned a Completed result for an id, the *)
(* id is never pending again and no call returns a result for it again.    *)
C1_ResultAtMostOnce ==
  \A id \in completed :
    /\ id \notin Pending
    /\ ~ReturnsCompleted(try_complete_attestation(manager, id))

(* C2: whenever try_complete_attestation returns a Completed result for a  *)
(* request with threshold k, at least k distinct attestors hold an         *)
(* Approved attestation for it.                                            *)
C2_QuorumOfDistinctAttestors ==
  \A id \in Pending :
    ReturnsCompleted(try_complete_attestation(manager, id)) =>
      Cardinality(DistinctApprovers(manager.attestations[id]))
        >= manager.pending_requests[id].threshold

ApprovedCount(id) == Cardinality(ApprovedIndexes(manager.attestations[id]))

(* C3 as stated: for a pending request with at least as many Approved      *)
(* attestations as the request's threshold, try_complete_attestation       *)
(* returns a Completed result carrying a threshold signature and removes   *)
(* the request from the pending set.                                       *)
C3_CompletesAtRequestThreshold ==
  \A id \in Pending :
    ApprovedCount(id) >= manager.pending_requests[id].threshold =>
      LET out == try_complete_attestation(manager, id)
      IN  /\ ReturnsCompleted(out)
          /\ id \notin DOMAIN out.m.pending_requests

(* C3 amended: with at least as many Approved attestations as both the     *)
(* request's threshold and the scheme's threshold the call returns a       *)
(* Completed result with a threshold signature and removes exactly that    *)
(* request; with at least the request's threshold but fewer than the       *)
(* scheme's it fails with ThresholdNotMet and changes nothing.             *)
C3_CompletesAtBothThresholds ==
  \A id \in Pending :
    LET out == try_complete_attestation(manager, id)
        n   == ApprovedCount(id)
    IN  n >= manager.pending_requests[id].threshold =>
          IF n >= manager.threshold_scheme.threshold
            THEN /\ ReturnsCompleted(out)
                 /\ DOMAIN out.m.pending_requests = Pending \ {id}
                 /\ \A other \in Pending \ {id} :
                      out.m.pending_requests[other] = manager.pending_requests[other]
                 /\ out.m.attestations = manager.attestations
            ELSE /\ ~out.result.ok
                 /\ out.result.err = "ThresholdNotMet"
                 /\ out.m = manager

C3_Witness ==
  /\ last.op = "try_complete_attestation"
  /\ last.result.ok
  /\ last.result.val.some
  /\ last.result.val.v.status = "Completed"
  /\ last.request_id \notin Pending
  /\ last.request_id \in DOMAIN manager.attestations

(* C4: for a pending request with fewer Approved attestations than its     *)
(* threshold, try_complete_attestation returns Ok(None) and leaves the     *)
(* manager as it was; Rejected attestations do not count.                  *)
C4_BelowThresholdReturnsNothing ==
  \A id \in Pending :
    ApprovedCount(id) < manager.pending_requests[id].threshold =>
      LET out == try_complete_attestation(manager, id)
      IN  /\ out.result = Ok(NoneVal)
          /\ out.m = manager

C4_Witness ==
  /\ last.op = "try_complete_attestation"
  /\ last.result = Ok(NoneVal)
  /\ last.request_id \in Pending
  /\ ApprovedCount(last.request_id)
       < manager.pending_requests[last.request_id].threshold
  /\ Len(manager.attestations[last.request_id])
       >= manager.pending_requests[last.request_id].threshold

(* C5: after a request has been completed, every later                     *)
(* try_complete_attestation or process_attestation call on its id fails    *)
(* with "Request not found" and leaves the manager as it was.              *)
C5_CompletedIdNotFound ==
  \A id \in completed :
    /\ LET out == try_complete_attestation(manager, id)
       IN  NotFound(out) /\ out.m = manager
    /\ \A attestor_id \in AttestorIds, approved \in BOOLEAN :
         LET out == process_attestation(manager, id, attestor_id, approved, now)
         IN  NotFound(out) /\ out.m = manager

(* C6: submit_request succeeds exactly when 1 <= threshold <= the number   *)
(* of distinct required attestors, now < expires_at and the credential     *)
(* validates; on success the request is pending with an empty attestation  *)
(* list and its id is returned.                                            *)
C6_SubmitSucceedsExactlyWhenValid ==
  \A request \in Requests :
    LET out == submit_request(manager, request, now)
        valid ==
          /\ 1 <= request.threshold
          /\ request.threshold <= Cardinality(Range(request.required_attestors))
          /\ request.expires_at.some => now < request.expires_at.v
          /\ credential_validate(request.credential, now).ok
    IN  /\ out.result.ok <=> valid
        /\ out.result.ok =>
             /\ out.result.val = request.id
             /\ request.id \in DOMAIN out.m.pending_requests
             /\ out.m.pending_requests[request.id] = request
             /\ out.m.attestations[request.id] = <<>>

(* C7: a pending request past its expires_at is rejected on access:        *)
(* process_attestation fails and records nothing, and                      *)
(* try_complete_attestation produces no Completed result from it.          *)
C7_ExpiryCheckedOnEveryAccess ==
  \A id \in Pending :
    PastExpiry(manager.pending_requests[id], now) =>
      /\ \A attestor_id \in AttestorIds, approved \in BOOLEAN :
           LET out == process_attestation(manager, id, attestor_id, approved, now)
           IN  ~out.result.ok /\ out.m = manager
      /\ ~ReturnsCompleted(try_complete_attestation(manager, id))

(* C8: process_attestation fails when the request id is not pending, when  *)
(* the request is past its expiry, when the attestor is not a registered   *)
(* verifier, or when no key share is bound to the attestor; in every other *)
(* case it succeeds and appends exactly one attestation, of that attestor, *)
(* to that request's list, and touches nothing else.                       *)
C8_ProcessFailsExactlyWhenUnknownOrExpired ==
  \A id \in RequestIds, attestor_id \in AttestorIds, approved \in BOOLEAN :
    LET out == process_attestation(manager, id, attestor_id, approved, now)
        must_fail ==
          \/ id \notin Pending
          \/ PastExpiry(manager.pending_requests[id], now)
          \/ attestor_id \notin manager.verifiers
          \/ attestor_id \notin DOMAIN manager.key_shares
    IN  IF must_fail
          THEN ~out.result.ok
          ELSE /\ out.result = Ok(Unit)
               /\ Len(out.m.attestations[id]) = Len(manager.attestations[id]) + 1
               /\ SubSeq(out.m.attestations[id], 1, Len(manager.attestations[id]))
                    = manager.attestations[id]
               /\ out.m.attestations[id][Len(out.m.attestations[id])].attestor_id
                    = attestor_id
               /\ out.m.attestations[id][Len(out.m.attestations[id])].request_id = id
               /\ DOMAIN out.m.attestations = DOMAIN manager.attestations
               /\ \A other \in DOMAIN manager.attestations \ {id} :
                    out.m.attestations[other] = manager.attestations[other]
               /\ out.m.pending_requests = manager.pending_requests
               /\ out.m.key_shares = manager.key_shares

C8_Witness ==
  /\ last.op = "process_attestation"
  /\ last.result.ok
  /\ last.request_id \in Pending
  /\ manager.pending_requests[last.request_id].expires_at = Some(now)
  /\ Len(manager.attestations[last.request_id]) > 0
  /\ manager.verifiers \ DOMAIN manager.key_shares # {}

(* C9: a submit_request, process_attestation or try_complete_attestation   *)
(* call that returns an error leaves the pending set, every attestation    *)
(* list and the key-share table as they were.                              *)
C9_NoMutationOnError ==
  /\ \A request \in Requests :
       LET out == submit_request(manager, request, now)
       IN  ~out.result.ok => out.m = manager
  /\ \A id \in RequestIds, attestor_id \in AttestorIds, approved \in BOOLEAN :
       LET out == process_attestation(manager, id, attestor_id, approved, now)
       IN  ~out.result.ok => out.m = manager
  /\ \A id \in RequestIds :
       LET out == try_complete_attestation(manager, id)
       IN  ~out.result.ok => out.m = manager

C9_Witness ==
  /\ last.op = "try_complete_attestation"
  /\ ~last.result.ok
  /\ last.result.err = "ThresholdNotMet"
  /\ last.request_id \in Pending
  /\ ApprovedCount(last.request_id) > 0

(* C10: every recorded attestation is Approved or Rejected, carries a      *)
(* partial signature exactly when it is Approved, and an Approved one's    *)
(* partial signature has the party id of the key share of its attestor.    *)
C10_AttestationsWellFormed ==
  \A id \in DOMAIN manager.attestations :
    \A i \in 1..Len(manager.attestations[id]) :
      LET a == manager.attestations[id][i]
      IN  /\ a.status \in {"Approved", "Rejected"}
          /\ a.partial_signature.some <=> a.status = "Approved"
          /\ a.status = "Approved" =>
               /\ a.attestor_id \in DOMAIN manager.key_shares
               /\ a.partial_signature.v.party_id
                    = manager.key_shares[a.attestor_id].party_id

C10_Witness ==
  \E id \in DOMAIN manager.attestations :
    \E i, j \in 1..Len(manager.attestations[id]) :
      /\ manager.attestations[id][i].status = "Approved"
      /\ manager.attestations[id][j].status = "Rejected"
      /\ manager.attestations[id][i].attestor_id = "b"

RECURSIVE SumCompletions(_)
SumCompletions(cs) ==
  IF cs = {} THEN 0
  ELSE LET c == CHOOSE x \in cs : TRUE
       IN  callers[c].completions + SumCompletions(cs \ {c})

InCriticalSection(c) == callers[c].pc \in {"counted", "combined"}

(* C11: with callers of process_attestation and try_complete_attestation   *)
(* interleaved on one request, the append and the count-combine-remove     *)
(* sequence exclude each other: at most one call in all is handed a        *)
(* Completed result, at most one call is in progress at a time, and while  *)
(* a call is between its count and its removal no attestation is appended  *)
(* and the request stays pending.                                          *)
C11_AppendAndCompletionExclusive ==
  /\ SumCompletions(Callers) <= 1
  /\ \A c, d \in Callers :
       (callers[c].pc # "idle" /\ callers[d].pc # "idle") => c = d
  /\ \A c \in Callers :
       InCriticalSection(c) =>
         /\ callers[c].request_id \in Pending
         /\ manager.attestations[callers[c].request_id]
              = callers[c].snapshot.v.attestations[callers[c].request_id]

C11_Witness ==
  \E c, d \in Callers :
    /\ c # d
    /\ callers[c].completions = 1
    /\ callers[d].op = "try_complete_attestation"
    /\ callers[d].returned.some
    /\ ~callers[d].returned.v.ok
    /\ callers[d].returned.v.msg = "Request not found"
    /\ Len(manager.attestations["r1"]) >= 2

(* C12: combine_signatures given fewer partial signatures than the         *)
(* scheme's threshold, none included, fails with ThresholdNotMet and       *)
(* returns no signature, whatever schemes the partial signatures are of.   *)
C12_CombineBelowThresholdFails ==
  engine.generated.some =>
    \A n \in 0..Len(engine.partial_signatures) :
      LET input    == SubSeq(engine.partial_signatures, 1, n)
          combined == combine_signatures(engine.scheme.v, input)
      IN  n < engine.scheme.v.threshold =>
            /\ ~combined.ok
            /\ combined.err = "ThresholdNotMet"

C12_Witness ==
  /\ engine.call.op = "combine_signatures"
  /\ ~engine.call.result.ok
  /\ engine.call.result.err = "ThresholdNotMet"
  /\ Len(engine.partial_signatures) = 2
  /\ engine.partial_signatures[1].scheme_id = OtherSchemeId

(* C13: every signature combine_signatures returns names at least         *)
(* threshold distinct party ids as its signers, whatever the input         *)
(* sequence is, repeated party ids included.                               *)
C13_SignersAreDistinctQuorum ==
  engine.generated.some =>
    LET combined == combine_signatures(engine.scheme.v, engine.partial_signatures)
    IN  combined.ok =>
          Cardinality(Range(combined.val.signers)) >= engine.scheme.v.threshold

IsSchemeMismatch(result) ==
  /\ ~result.ok
  /\ result.msg \in {"Key share scheme ID mismatch",
                     "Signature scheme ID mismatch", "Scheme ID mismatch"}

HasPartialOf(partial_signatures, scheme_id) ==
  \E i \in 1..Len(partial_signatures) : partial_signatures[i].scheme_id = scheme_id

(* The signatures at hand: the combination of the collected partial        *)
(* signatures when there is one, and the signature of the other scheme.    *)
SignaturesAtHand ==
  LET combined == combine_signatures(engine.scheme.v, engine.partial_signatures)
  IN  {OtherSignature} \cup (IF combined.ok THEN {combined.val} ELSE {})

MixedSignAndVerifyFail ==
  /\ \A key_share \in OtherShares :
       IsSchemeMismatch(partial_sign(engine.scheme.v, engine.message, key_share))
  /\ \A key_share \in OwnShares :
       IsSchemeMismatch(partial_sign(OtherScheme, engine.message, key_share))
  /\ \A message \in Messages, signature \in SignaturesAtHand,
        public_key \in PublicKeys :
       (\/ signature.scheme_id # engine.scheme.v.scheme_id
        \/ public_key.scheme_id # engine.scheme.v.scheme_id)
         => IsSchemeMismatch(verify_signature(engine.scheme.v, message,
                                              signature, public_key))

(* C14 as stated: between two scheme instances with different scheme_ids,  *)
(* every mixed use fails with a scheme-mismatch error and returns no       *)
(* value: partial_sign with a key share of the other scheme,               *)
(* combine_signatures with at least one partial signature of the other     *)
(* scheme, verify_signature with a signature or public key of the other.   *)
C14_MixedUseIsSchemeMismatch ==
  engine.generated.some =>
    /\ MixedSignAndVerifyFail
    /\ HasPartialOf(engine.partial_signatures, OtherSchemeId) =>
         IsSchemeMismatch(combine_signatures(engine.scheme.v,
                                             engine.partial_signatures))
    /\ HasPartialOf(engine.partial_signatures, engine.scheme.v.scheme_id) =>
         IsSchemeMismatch(combine_signatures(OtherScheme,
                                             engine.partial_signatures))

(* C14 amended: partial_sign and verify_signature as stated;               *)
(* combine_signatures given at least threshold partial signatures, one or  *)
(* more of them of the other scheme, fails with a scheme-mismatch error,   *)
(* and given fewer than threshold it fails with ThresholdNotMet whatever   *)
(* their schemes; no value is returned in either case.                     *)
C14_MixedUseFailsCountFirst ==
  engine.generated.some =>
    /\ MixedSignAndVerifyFail
    /\ \A scheme \in {engine.scheme.v, OtherScheme} :
         LET combined == combine_signatures(scheme, engine.partial_signatures)
             mixed == \E i \in 1..Len(engine.partial_signatures) :
                        engine.partial_signatures[i].scheme_id # scheme.scheme_id
         IN  mixed =>
               IF Len(engine.partial_signatures) >= scheme.threshold
                 THEN IsSchemeMismatch(combined)
                 ELSE ~combined.ok /\ combined.err = "ThresholdNotMet"

C14_Witness ==
  /\ engine.call.op = "combine_signatures"
  /\ IsSchemeMismatch(engine.call.result)
  /\ engine.scheme.v.threshold = 2
  /\ engine.partial_signatures[1].scheme_id = engine.scheme.v.scheme_id
  /\ engine.partial_signatures[2].scheme_id = OtherSchemeId

(* C15: ThresholdScheme::new fails exactly when threshold = 0 or           *)
(* threshold > total_parties; a scheme it returns has the parameters given *)
(* with 1 <= threshold <= total_parties; AttestationManager::new fails in  *)
(* the same cases, with the same error and no manager, and otherwise       *)
(* returns a manager holding such a scheme.                                *)
C15_CreateFailsExactlyOnBadThreshold ==
  /\ engine.scheme.some =>
       /\ 1 <= engine.scheme.v.threshold
       /\ engine.scheme.v.threshold <= engine.scheme.v.total_parties
  /\ engine.call.op = "new" =>
       LET threshold     == engine.call.args[1]
           total_parties == engine.call.args[2]
           bad           == threshold = 0 \/ threshold > total_parties
       IN  /\ engine.call.result.ok <=> ~bad
           /\ engine.scheme.some <=> ~bad
           /\ engine.call.result.ok =>
                /\ engine.call.result.val.threshold = threshold
                /\ engine.call.result.val.total_parties = total_parties
           /\ \A verifier_list \in VerifierLists, draws \in EngineDraws :
                LET created == AttestationManager_new(threshold, total_parties,
                                                      verifier_list, draws)
                IN  IF bad
                      THEN created = engine.call.result
                      ELSE /\ created.ok
                           /\ created.val.threshold_scheme = engine.call.result.val

C15_Witness ==
  /\ engine.call.op = "new"
  /\ ~engine.call.result.ok
  /\ engine.call.args[1] > engine.call.args[2]
  /\ engine.call.args[2] > 0

RECURSIVE Pow(_, _)
Pow(x, e) == IF e = 0 THEN 1 ELSE (x * Pow(x, e - 1)) % FieldOrder

(* f(x) = c[1] + c[2] x + ... + c[t] x^(t-1) over the field.               *)
RECURSIVE PolyEval(_, _, _)
PolyEval(c, t, x) ==
  IF t = 0 THEN 0
  ELSE (PolyEval(c, t - 1, x) + c[t] * Pow(x, t - 1)) % FieldOrder

(* The sequences of k distinct party ids out of 1..n.                      *)
Quorums(k, n) ==
  { q \in [1..k -> 1..n] : \A i, j \in 1..k : q[i] = q[j] => i = j }

(* The sum over a quorum of lagrange_coefficient times a value per party.  *)
RECURSIVE Interpolate(_, _, _)
Interpolate(q, value, k) ==
  IF k = 0 THEN 0
  ELSE (Interpolate(q, value, k - 1)
          + lagrange_coefficient(q[k], q) * value[q[k]]) % FieldOrder

(* C16: generate_key_shares returns total_parties shares with party ids    *)
(* 1..total_parties in order, the private share of party i being f(i) for  *)
(* the polynomial f of degree threshold-1 whose coefficients are the       *)
(* scalars drawn, f(0) = s0 the first of them; the public share and the    *)
(* public key are the images of the private share and of s0; and over      *)
(* every quorum of threshold shares the Lagrange coefficients recombine    *)
(* the private shares to s0.                                               *)
C16_SharesLieOnOnePolynomial ==
  engine.generated.some =>
    LET scheme     == engine.scheme.v
        key_shares == engine.generated.v.key_shares
        public     == engine.generated.v.threshold_public_key
        s0         == engine.draws[1] % FieldOrder
        secret     == [i \in 1..scheme.total_parties |-> key_shares[i].private_share]
    IN  /\ Len(key_shares) = scheme.total_parties
        /\ \A i \in 1..Len(key_shares) :
             /\ key_shares[i].party_id = i
             /\ key_shares[i].private_share
                  = PolyEval(engine.draws, scheme.threshold, i)
             /\ key_shares[i].public_share = key_shares[i].private_share
             /\ key_shares[i].scheme_id = scheme.scheme_id
        /\ PolyEval(engine.draws, scheme.threshold, 0) = s0
        /\ public.public_key = s0
        /\ public.scheme_id = scheme.scheme_id
        /\ public.threshold = scheme.threshold
        /\ public.total_parties = scheme.total_parties
        /\ \A q \in Quorums(scheme.threshold, scheme.total_parties) :
             Interpolate(q, secret, scheme.threshold) = s0

C16_Witness ==
  /\ engine.call.op = "generate_key_shares"
  /\ engine.scheme.v.threshold = 3
  /\ engine.generated.v.key_shares[1].private_share
       # engine.generated.v.key_shares[2].private_share
  /\ engine.generated.v.key_shares[1].private_share # engine.draws[1]

(* The collected partial signatures are of this scheme, by distinct        *)
(* parties, and at least threshold of them.                                *)
QuorumCollected ==
  /\ engine.generated.some
  /\ Len(engine.partial_signatures) >= engine.scheme.v.threshold
  /\ ~HasPartialOf(engine.partial_signatures, OtherSchemeId)
  /\ \A i, j \in 1..Len(engine.partial_signatures) :
       engine.partial_signatures[i].party_id = engine.partial_signatures[j].party_id
         => i = j

(* The signature the secret s0 itself makes on the message.                *)
MasterSignature(message) ==
  (hash_to_g2(engine.scheme.v, message) * (engine.draws[1] % FieldOrder))
    % FieldOrder

(* C17: for at least threshold partial signatures on one message made by   *)
(* distinct shares of one key generation, combine_signatures returns the   *)
(* Lagrange-weighted sum of the partial signatures of its signers, which   *)
(* is the signature of the full secret: hash(message) * s0.                *)
C17_CombineRecoversMasterSignature ==
  QuorumCollected =>
    LET combined == combine_signatures(engine.scheme.v, engine.partial_signatures)
        partial  == [id \in { engine.partial_signatures[i].party_id :
                                i \in 1..Len(engine.partial_signatures) } |->
                       (CHOOSE p \in Range(engine.partial_signatures) :
                          p.party_id = id).signature]
    IN  /\ combined.ok
        /\ combined.val.signature
             = Interpolate(combined.val.signers, partial, Len(combined.val.signers))
        /\ combined.val.signature = MasterSignature(engine.message)

(* The partial signatures of the parties of a quorum, in its order.        *)
PartialsOf(q) ==
  [k \in 1..Len(q) |->
     partial_sign(engine.scheme.v, engine.message,
                  engine.generated.v.key_shares[q[k]]).val]

(* C18: any two quorums of threshold shares of one key generation, taken   *)
(* in any order, combine on one message to the same signature value.       *)
C18_QuorumIndependence ==
  engine.generated.some =>
    \A q1, q2 \in Quorums(engine.scheme.v.threshold, engine.scheme.v.total_parties) :
      LET c1 == combine_signatures(engine.scheme.v, PartialsOf(q1))
          c2 == combine_signatures(engine.scheme.v, PartialsOf(q2))
      IN  /\ c1.ok
          /\ c2.ok
          /\ c1.val.signature = c2.val.signature

(* The partial signatures on a message of the parties of a quorum of      *)
(* generated shares, in its order.                                         *)
SignedBy(scheme, key_shares, message, q) ==
  [k \in 1..Len(q) |-> partial_sign(scheme, message, key_shares[q[k]])]

(* C19: for the scheme of the manager, whatever valid threshold and        *)
(* total_parties it was made with, every message and every quorum of       *)
(* threshold generated shares in every order: partial_sign with each       *)
(* share, then combine_signatures, then verify_signature against the       *)
(* generated public key gives true; and verify_attestation_result gives    *)
(* true on a result try_complete_attestation returns, given the            *)
(* credential of its request.  The scheme and the public key of a manager  *)
(* stay the ones generated at construction, which is stated of every       *)
(* state; the quorums are gone through once, for the manager as            *)
(* constructed.                                                            *)
C19_SignCombineVerifyAccepts ==
  /\ \A draws \in CoefficientDraws :
       \A gen \in {generate_key_shares(manager.threshold_scheme, draws)} :
         /\ gen.threshold_public_key = manager.threshold_public_key
         /\ \A id \in DOMAIN manager.key_shares :
              manager.key_shares[id] \in Range(gen.key_shares)
         /\ last.op = "new" =>
              \A credential \in Credentials,
                 q \in Quorums(manager.threshold_scheme.threshold,
                               manager.threshold_scheme.total_parties) :
                \A signed \in {SignedBy(manager.threshold_scheme, gen.key_shares,
                                        to_vec(credential), q)} :
                  /\ \A k \in 1..Len(q) : signed[k].ok
                  /\ \A combined \in
                         {combine_signatures(manager.threshold_scheme,
                                             [k \in 1..Len(q) |-> signed[k].val])} :
                       /\ combined.ok
                       /\ verify_signature(manager.threshold_scheme,
                                           to_vec(credential), combined.val,
                                           gen.threshold_public_key) = Ok(TRUE)
  /\ \A id \in Pending :
       LET out == try_complete_attestation(manager, id)
       IN  ReturnsCompleted(out) =>
             verify_attestation_result(out.m, out.result.val.v,
                                       manager.pending_requests[id].credential)
               = Ok(TRUE)

C19_Witness ==
  /\ last.op = "try_complete_attestation"
  /\ last.result.ok
  /\ last.result.val.some
  /\ manager.threshold_scheme.threshold = 2
  /\ Len(last.result.val.v.threshold_signature.v.signers) = 2
  /\ verify_attestation_result(manager, last.result.val.v, ValidCredential)
       = Ok(TRUE)

(* C20: verify_signature gives true only when the pairing equation holds,  *)
(* that is when the signature value is hash(message) * s0 for the secret   *)
(* s0 of the public key; so it gives false for a message other than the    *)
(* one signed and for an altered signature value, and                      *)
(* verify_attestation_result gives false for a credential other than the   *)
(* one attested.                                                           *)
C20_VerifyChecksPairingEquation ==
  \A id \in Pending :
    LET out == try_complete_attestation(manager, id)
        request == manager.pending_requests[id]
    IN  ReturnsCompleted(out) =>
          LET result    == out.result.val.v
              signature == result.threshold_signature.v
              altered   == [signature EXCEPT
                              !.signature = (@ + 1) % FieldOrder]
              scheme    == manager.threshold_scheme
              public    == manager.threshold_public_key
          IN  /\ \A credential \in Credentials, sig \in {signature, altered} :
                   verify_signature(scheme, to_vec(credential), sig, public)
                     = Ok(TRUE)
                   => sig.signature
                        = (hash_to_g2(scheme, to_vec(credential))
                             * public.public_key) % FieldOrder
              /\ \A credential \in Credentials \ {request.credential} :
                   verify_attestation_result(out.m, result, credential)
                     = Ok(FALSE)

(* The signatures handed to verify_signature: what combine_signatures      *)
(* makes of the collected partial signatures, the same with its last       *)
(* signer dropped, and each of them with another signature value.          *)
SignaturesToVerify ==
  LET combined == combine_signatures(engine.scheme.v, engine.partial_signatures)
      made     == IF combined.ok THEN {combined.val} ELSE {}
      dropped  == { [sig EXCEPT !.signers = SubSeq(@, 1, Len(@) - 1)] : sig \in made }
  IN  UNION { { sig, [sig EXCEPT !.signature = (@ + 1) % FieldOrder] } :
              sig \in made \cup dropped }

(* C21: verify_signature never gives true for a signature whose signers    *)
(* are fewer than threshold parties, whatever the signature value and the  *)
(* message are.                                                            *)
C21_VerifyRejectsTooFewSigners ==
  engine.generated.some =>
    \A message \in Messages, sig \in SignaturesToVerify :
      Cardinality(Range(sig.signers)) < engine.scheme.v.threshold =>
        verify_signature(engine.scheme.v, message, sig,
                         engine.generated.v.threshold_public_key) # Ok(TRUE)

(* The results without a signature a caller can hold for a request: one    *)
(* of each status.                                                         *)
UnsignedResults ==
  { [request_id |-> id, credential_id |-> ValidCredential.id,
     threshold_signature |-> NoneVal, participating_attestors |-> <<>>,
     status |-> status, total_attestations |-> 0] :
      id \in RequestIds,
      status \in {"InProgress", "Completed", "Failed", "Expired"} }

(* C22: verify_attestation_result on a result that carries no threshold    *)
(* signature returns Ok(false), never an error, for every credential, in   *)
(* every state of the manager; the call leaves the manager as it was.      *)
C22_UnsignedResultIsFalse ==
  /\ \A result \in UnsignedResults, credential \in Credentials :
       verify_attestation_result(manager, result, credential) = Ok(FALSE)
  /\ \A id \in Pending :
       LET out == try_complete_attestation(manager, id)
       IN  ReturnsCompleted(out) =>
             \A credential \in Credentials :
               verify_attestation_result(out.m, Unsigned(out.result.val.v),
                                         credential) = Ok(FALSE)

C22_Witness ==
  /\ last.op = "verify_attestation_result"
  /\ last.result = Ok(FALSE)
  /\ last.request_id \notin Pending
  /\ Len(manager.attestations[last.request_id]) > 0

FailsWith(result, kind) == ~result.ok /\ result.err = kind

(* C23: every failure carries the error kind of its cause: a request past  *)
(* its expires_at is Expired, an unknown request, attestor or key share is *)
(* NotFound, a bad threshold is InvalidConfig, a key share or signature of *)
(* another scheme is SchemeMismatch; the four kinds differ, so the causes  *)
(* can be told apart by kind.                                              *)
C23_ErrorKindFollowsCause ==
  /\ \A request \in Requests :
       LET result == submit_request(manager, request, now).result
           bad_threshold ==
             \/ request.threshold = 0
             \/ request.threshold > Len(request.required_attestors)
       IN  /\ bad_threshold => FailsWith(result, "InvalidConfig")
           /\ (~bad_threshold /\ PastExpiry(request, now))
                => FailsWith(result, "Expired")
  /\ \A threshold \in 0..(MaxParties + 1), total_parties \in 1..MaxParties :
       (threshold = 0 \/ threshold > total_parties)
         => FailsWith(ThresholdScheme_new(threshold, total_parties,
                                          ManagerSchemeId), "InvalidConfig")
  /\ \A id \in RequestIds, attestor_id \in AttestorIds, approved \in BOOLEAN :
       LET result ==
             process_attestation(manager, id, attestor_id, approved, now).result
       IN  IF id \notin Pending
             THEN FailsWith(result, "NotFound")
           ELSE IF PastExpiry(manager.pending_requests[id], now)
             THEN FailsWith(result, "Expired")
           ELSE (\/ attestor_id \notin manager.verifiers
                 \/ attestor_id \notin DOMAIN manager.key_shares)
                  => FailsWith(result, "NotFound")
  /\ \A id \in RequestIds \ Pending :
       FailsWith(try_complete_attestation(manager, id).result, "NotFound")
  /\ \A key_share \in Range(OtherGenerated.key_shares) :
       FailsWith(partial_sign(manager.threshold_scheme,
                              to_vec(ValidCredential), key_share),
                 "SchemeMismatch")

(* C24: the key-share table maps attestor ids to key shares injectively    *)
(* and is the one bound at construction: two attestor ids never hold       *)
(* shares of one party_id, every bound share is of the manager's scheme,   *)
(* and no submit_request, process_attestation or try_complete_attestation  *)
(* call adds, removes or replaces an entry (verify_attestation_result      *)
(* takes &self and returns only a value).                                  *)
C24_KeyShareTableFixedAndInjective ==
  /\ \A a, b \in DOMAIN manager.key_shares :
       manager.key_shares[a].party_id = manager.key_shares[b].party_id => a = b
  /\ \A a \in DOMAIN manager.key_shares :
       /\ manager.key_shares[a].scheme_id = manager.threshold_scheme.scheme_id
       /\ a \in manager.verifiers
  /\ \A verifier_list \in VerifierLists, draws \in CoefficientDraws :
       manager.key_shares
         = AttestationManager_new(manager.threshold_scheme.threshold,
                                  manager.threshold_scheme.total_parties,
                                  verifier_list, draws).val.key_shares
  /\ \A request \in Requests :
       submit_request(manager, request, now).m.key_shares = manager.key_shares
  /\ \A id \in RequestIds, attestor_id \in AttestorIds, approved \in BOOLEAN :
       process_attestation(manager, id, attestor_id, approved, now).m.key_shares
         = manager.key_shares
  /\ \A id \in RequestIds :
       try_complete_attestation(manager, id).m.key_shares = manager.key_shares

C24_Witness ==
  /\ Cardinality(DOMAIN manager.key_shares) = 2
  /\ last.op = "verify_attestation_result"
  /\ Len(manager.attestations[last.request_id]) = 2

IsPrefix(s, t) ==
  /\ Len(s) <= Len(t)
  /\ \A i \in 1..Len(s) : t[i] = s[i]

(* C25: until completion the attestation list of a request only grows by   *)
(* appending: no operation, a second submit_request under the same id      *)
(* included, removes or resets the attestations recorded for a pending     *)
(* request.                                                                *)
C25_PendingAttestationsOnlyGrow ==
  \A id \in Pending :
    /\ \A request \in Requests :
         request.id = id =>
           \A out \in {submit_request(manager, request, now)} :
             id \in DOMAIN out.m.pending_requests =>
               IsPrefix(manager.attestations[id], out.m.attestations[id])
    /\ \A attestor_id \in AttestorIds, approved \in BOOLEAN :
         \A out \in {process_attestation(manager, id, attestor_id, approved, now)} :
           id \in DOMAIN out.m.pending_requests =>
             IsPrefix(manager.attestations[id], out.m.attestations[id])
    /\ \A out \in {try_complete_attestation(manager, id)} :
         id \in DOMAIN out.m.pending_requests =>
           IsPrefix(manager.attestations[id], out.m.attestations[id])

(* C26: only attestors named in a request's required_attestors contribute  *)
(* to it: every attestation recorded for a pending request, and every      *)
(* participating attestor of the result completing it, is of an attestor   *)
(* in the request's required_attestors.                                    *)
C26_OnlyRequiredAttestorsContribute ==
  \A id \in Pending :
    \A required \in {Range(manager.pending_requests[id].required_attestors)} :
      /\ \A i \in 1..Len(manager.attestations[id]) :
           manager.attestations[id][i].attestor_id \in required
      /\ \A out \in {try_complete_attestation(manager, id)} :
           ReturnsCompleted(out) =>
             Range(out.result.val.v.participating_attestors) \subseteq required

(* The i-th signer is the party of the key share bound to the i-th         *)
(* participating attestor, for every position the signers have.            *)
SignersFollowParticipants(result) ==
  \A i \in 1..Len(result.threshold_signature.v.signers) :
    /\ i <= Len(result.participating_attestors)
    /\ result.participating_attestors[i] \in DOMAIN manager.key_shares
    /\ result.threshold_signature.v.signers[i]
         = manager.key_shares[result.participating_attestors[i]].party_id

(* C27, as stated: in every result of try_complete_attestation the         *)
(* participating_attestors and the signers of the threshold signature have *)
(* the same length and the i-th signer is the party_id of the key share    *)
(* bound to the i-th participating attestor, also when more than threshold *)
(* approvals were recorded.                                                *)
C27_SignersMatchParticipants ==
  \A id \in Pending :
    \A out \in {try_complete_attestation(manager, id)} :
      ReturnsCompleted(out) =>
        /\ Len(out.result.val.v.threshold_signature.v.signers)
             = Len(out.result.val.v.participating_attestors)
        /\ SignersFollowParticipants(out.result.val.v)

(* C27, amended: the signers are the parties of the first                  *)
(* threshold_scheme.threshold participating attestors: exactly that many   *)
(* signers, never more than the participating attestors, the i-th signer   *)
(* being the party_id of the key share bound to the i-th participating     *)
(* attestor; the participating attestors are all the approvals recorded.   *)
C27_SignersArePrefixOfParticipants ==
  \A id \in Pending :
    \A out \in {try_complete_attestation(manager, id)} :
      ReturnsCompleted(out) =>
        /\ Len(out.result.val.v.threshold_signature.v.signers)
             = manager.threshold_scheme.threshold
        /\ Len(out.result.val.v.participating_attestors)
             = ApprovedCount(id)
        /\ SignersFollowParticipants(out.result.val.v)

C27_Witness ==
  /\ last.op = "try_complete_attestation"
  /\ last.result.ok
  /\ last.result.val.some
  /\ Len(last.result.val.v.participating_attestors)
       > Len(last.result.val.v.threshold_signature.v.signers)

(* C28: every pending request id has an attestation list, so the lookups  *)
(* of the list in process_attestation and try_complete_attestation never   *)
(* fail; and every pending request has                                     *)
(* 1 <= threshold <= |required_attestors|, required_attestors counted as   *)
(* the set of its attestor ids.                                            *)
C28_PendingHasListAndValidThreshold ==
  \A id \in Pending :
    /\ id \in DOMAIN manager.attestations
    /\ \A attestor_id \in AttestorIds, approved \in BOOLEAN :
         FailsWith(process_attestation(manager, id, attestor_id, approved,
                                       now).result, "Panic") = FALSE
    /\ FailsWith(try_complete_attestation(manager, id).result, "Panic") = FALSE
    /\ 1 <= manager.pending_requests[id].threshold
    /\ manager.pending_requests[id].threshold
         <= Cardinality(Range(manager.pending_requests[id].required_attestors))

(* C29: in the credential registry every entry stored as Pending has       *)
(* attestation_count < required_attestations and every entry stored as     *)
(* Active has attestation_count >= required_attestations; add_attestation  *)
(* succeeds only on a Pending entry, raises its count by exactly one,      *)
(* switches it to Active exactly when the count reaches                    *)
(* required_attestations, and touches nothing else.                        *)
C29_CountMatchesStatus ==
  /\ \A id \in DOMAIN registry.entries :
       \A entry \in {registry.entries[id]} :
         /\ entry.status = "Pending" =>
              entry.attestation_count < entry.required_attestations
         /\ entry.status = "Active" =>
              entry.attestation_count >= entry.required_attestations
  /\ \A id \in CredentialIds :
       \A out \in {add_attestation(registry, id)} :
         IF out.result.ok
           THEN /\ id \in DOMAIN registry.entries
                /\ registry.entries[id].status = "Pending"
                /\ out.m.entries[id].attestation_count
                     = registry.entries[id].attestation_count + 1
                /\ out.m.entries[id].status \in {"Pending", "Active"}
                /\ out.m.entries[id].status = "Active"
                     <=> out.m.entries[id].attestation_count
                           = registry.entries[id].required_attestations
                /\ out.m = [registry EXCEPT
                              !.entries[id].attestation_count = @ + 1,
                              !.entries[id].status = out.m.entries[id].status]
           ELSE out.m = registry

C29_Witness ==
  /\ last.op = "add_attestation"
  /\ last.result.ok
  /\ registry.entries[last.request_id].status = "Active"
  /\ registry.entries[last.request_id].attestation_count = 2

(* C30: Revoked is absorbing in the credential registry: a successful      *)
(* revoke_credential stores Revoked; for an entry stored as Revoked,       *)
(* add_attestation, revoke_credential and register_credential with its id  *)
(* fail and change nothing, every call on any id leaves it Revoked, and    *)
(* is_valid is false; a revocation entry exists for an id exactly when     *)
(* its stored status is Revoked.                                           *)
C30_RevokedIsAbsorbing ==
  /\ \A id \in CredentialIds :
       /\ id \in DOMAIN registry.revocations
            <=> (id \in DOMAIN registry.entries
                   /\ registry.entries[id].status = "Revoked")
       /\ \A revoked_by \in Revokers, reason \in Reasons :
            \A out \in {revoke_credential(registry, id, revoked_by, reason)} :
              out.result.ok =>
                /\ out.m.entries[id].status = "Revoked"
                /\ id \in DOMAIN out.m.revocations
  /\ \A id \in DOMAIN registry.entries :
       registry.entries[id].status = "Revoked" =>
         /\ ~is_valid(registry, id, now)
         /\ add_attestation(registry, id)
              = Outcome(registry, add_attestation(registry, id).result)
         /\ ~add_attestation(registry, id).result.ok
         /\ \A revoked_by \in Revokers, reason \in Reasons :
              \A out \in {revoke_credential(registry, id, revoked_by, reason)} :
                ~out.result.ok /\ out.m = registry
         /\ \A expires_at \in ExpiryChoices, required \in RequiredChoices :
              \A out \in {register_credential(registry, id, expires_at,
                                              required)} :
                ~out.result.ok /\ out.m = registry
         /\ \A other \in CredentialIds :
              /\ add_attestation(registry, other).m.entries[id].status = "Revoked"
              /\ \A revoked_by \in Revokers, reason \in Reasons :
                   revoke_credential(registry, other, revoked_by,
                                     reason).m.entries[id].status = "Revoked"
              /\ \A expires_at \in ExpiryChoices, required \in RequiredChoices :
                   register_credential(registry, other, expires_at,
                                       required).m.entries[id].status = "Revoked"

C30_Witness ==
  /\ last.op = "revoke_credential"
  /\ ~last.result.ok
  /\ last.request_id \in DOMAIN registry.entries
  /\ registry.entries[last.request_id].status = "Revoked"
  /\ registry.entries[last.request_id].attestation_count > 0

=============================================================================
